---- MODULE Spec2Model ----
(***************************************************************************)
(* A model of the MIPS32 interpreter of fetchfern/mips: the storage        *)
(* backends and program image (crate mips_program), the memory map, the    *)
(* register file and the cycle engine (crate mips_cpu).                    *)
(*                                                                         *)
(* A u32 is the pair <<high half, low half>> of two 16-bit naturals, so    *)
(* that every 32-bit value is exact; u8, u16 and usize are naturals.       *)
(* Option values are records tagged "Some"/"None", Result values records   *)
(* tagged "Ok"/"Err", and a Rust panic (unwrap on Err, todo!,              *)
(* unimplemented!, a failed debug_assert!, an arithmetic overflow check)   *)
(* is the record tagged "Panic".                                           *)
(***************************************************************************)
EXTENDS Integers, Sequences, FiniteSets

VARIABLES
  segmented,        \* a SegmentedStore: its frames, sorted by index
  debug_assertions, \* whether the build checks debug_assert! and overflow
  program,          \* ProgramData: the sections' stores
  regular,          \* Registers.regular: [0..31 -> u32]
  pc,               \* Registers.pc
  hi,               \* Registers.hi
  lo,               \* Registers.lo
  next,             \* what the last perform_cycle produced
  phase,            \* "ready": before a cycle, "returned": perform_cycle returned,
                    \* "panicked": the thread unwound
  before,           \* the register file as it was when the last cycle began
  cycles,           \* perform_cycle calls made so far
  image,            \* what the loader handed to ProgramDataBuilder::text, if anything
  loaded,           \* the last MemoryMap load made through its API, and its result
  borrows,          \* per general register, the RefMut handles to it that are live
  written           \* the write calls made on the store in WriteSpec, in order

vars == <<segmented, debug_assertions, program, regular, pc, hi, lo, next, phase,
          before, cycles, image, loaded, borrows,
          written>>

----------------------------------------------------------------------------
(* Bounds of the model *)

\* longest .text image, in bytes, handed to ProgramDataBuilder::text in MemSpec
MaxTextLen == 6

\* perform_cycle calls in one run of Spec
MaxCycles == 6

\* SegmentedStore::write calls in one run of SegSpec
MaxWrites == 2

----------------------------------------------------------------------------
(* u32 arithmetic on pairs of 16-bit halves *)

HALF == 65536

U32(h, l) == <<h, l>>

\* `x as u32` of a u8, u16 or small usize
AsU32(n) == <<n \div HALF, n % HALF>>

\* `x as usize` of a u32 (section offsets and register indices)
AsUsize(w) == w[1] * HALF + w[2]

RECURSIVE NatAnd(_, _)
NatAnd(a, b) ==
  IF a = 0 \/ b = 0 THEN 0
  ELSE ((a % 2) * (b % 2)) + (2 * NatAnd(a \div 2, b \div 2))

RECURSIVE NatOr(_, _)
NatOr(a, b) ==
  IF a = 0 THEN b
  ELSE IF b = 0 THEN a
  ELSE (IF (a % 2) = 1 \/ (b % 2) = 1 THEN 1 ELSE 0) + (2 * NatOr(a \div 2, b \div 2))

RECURSIVE NatXor(_, _)
NatXor(a, b) ==
  IF a = 0 THEN b
  ELSE IF b = 0 THEN a
  ELSE (((a % 2) + (b % 2)) % 2) + (2 * NatXor(a \div 2, b \div 2))

RECURSIVE Pow2(_)
Pow2(n) == IF n = 0 THEN 1 ELSE 2 * Pow2(n - 1)

\* a & b, a | b, a ^ b, !a on u32
BitAnd32(a, b) == <<NatAnd(a[1], b[1]), NatAnd(a[2], b[2])>>
BitOr32(a, b) == <<NatOr(a[1], b[1]), NatOr(a[2], b[2])>>
BitXor32(a, b) == <<NatXor(a[1], b[1]), NatXor(a[2], b[2])>>
BitNot32(a) == <<HALF - 1 - a[1], HALF - 1 - a[2]>>

\* a < b on u32
Lt32(a, b) == a[1] < b[1] \/ (a[1] = b[1] /\ a[2] < b[2])
Le32(a, b) == a = b \/ Lt32(a, b)

\* a variant a slip would produce: the carry of the low half dropped
wrapping_add_carry_dropped(a, b) == <<(a[1] + b[1]) % HALF, (a[2] + b[2]) % HALF>>

\* u32::wrapping_add, and whether the exact sum leaves u32
wrapping_add(a, b) ==
  LET l == a[2] + b[2]
      h == a[1] + b[1] + (l \div HALF)
  IN  <<h % HALF, l % HALF>>

AddOverflows(a, b) == a[1] + b[1] + ((a[2] + b[2]) \div HALF) >= HALF

\* u32::wrapping_sub, and whether the exact difference leaves u32
wrapping_sub(a, b) ==
  LET l == a[2] - b[2]
      borrow == IF l < 0 THEN 1 ELSE 0
      h == a[1] - b[1] - borrow
  IN  <<(h + HALF) % HALF, (l + HALF) % HALF>>

SubOverflows(a, b) == Lt32(a, b)

\* a << n and a >> n for 0 <= n < 32
Shl32(a, n) ==
  IF n >= 16
  THEN <<(a[2] * Pow2(n - 16)) % HALF, 0>>
  ELSE <<((a[1] * Pow2(n)) % HALF) + ((a[2] * Pow2(n)) \div HALF),
         (a[2] * Pow2(n)) % HALF>>

Shr32(a, n) ==
  IF n >= 16
  THEN <<0, a[1] \div Pow2(n - 16)>>
  ELSE <<a[1] \div Pow2(n),
         (a[2] \div Pow2(n)) + ((a[1] % Pow2(n)) * Pow2(16 - n))>>

----------------------------------------------------------------------------
(* Option, Result and panic *)

None == [tag |-> "None"]
Some(x) == [tag |-> "Some", v |-> x]
Ok(x) == [tag |-> "Ok", v |-> x]
Err(e) == [tag |-> "Err", e |-> e]
Panic(msg) == [tag |-> "Panic", msg |-> msg]

\* Option::unwrap_or
unwrap_or(o, d) == IF o.tag = "Some" THEN o.v ELSE d

\* .and_then(|sl| sl.first().copied())
first_copied(sl) ==
  IF sl.tag = "None" THEN None
  ELSE IF Len(sl.v) = 0 THEN None
  ELSE Some(sl.v[1])

\* u16::from_le_bytes and u32::from_le_bytes
u16_from_le_bytes(b) == b[1] + (256 * b[2])
u32_from_le_bytes(b) == <<b[3] + (256 * b[4]), b[1] + (256 * b[2])>>

----------------------------------------------------------------------------
(* mips_program::storage::segmented_store *)

SIZE == 2048

\* VecDeque::binary_search_by_key(&key, |s| s.index) over segments[low..high):
\* Ok(i) where the key is found, Err(i) with the insertion point otherwise
RECURSIVE binary_search_by_key(_, _, _, _)
binary_search_by_key(segments, key, low, high) ==
  IF low >= high THEN Err(low)
  ELSE IF segments[low + ((high - low) \div 2)].index = key
       THEN Ok(low + ((high - low) \div 2))
  ELSE IF segments[low + ((high - low) \div 2)].index < key
       THEN binary_search_by_key(segments, key, low + ((high - low) \div 2) + 1, high)
  ELSE binary_search_by_key(segments, key, low, low + ((high - low) \div 2))

\* SegmentedStore::new
SegmentedStore_new == << >>

\* .ok().and_then(|i| self.segments.get(i))
SegmentAt(segments, found) ==
  IF found.tag = "Ok" THEN Some(segments[found.v]) ELSE None

\* SegmentedStore::find_segment: the segment whose start is floor(index/SIZE)*SIZE
find_segment(segments, index) ==
  SegmentAt(segments,
            binary_search_by_key(segments, (index \div SIZE) * SIZE, 1,
                                 Len(segments) + 1))

\* Segment::bytes_at: &self.data[index..]
bytes_at(segment, index) == SubSeq(segment.data, index + 1, Len(segment.data))

\* .and_then(|s| s.to_relative_index(index).map(|i| s.bytes_at(i)))
SliceOfSegment(s, index) ==
  IF s.tag = "None" THEN None
  ELSE IF index < s.v.index THEN None  \* to_relative_index: checked_sub
  ELSE Some(bytes_at(s.v, index - s.v.index))

\* SegmentedStore::read_continuous
SegmentedStore_read_continuous(store, index) ==
  SliceOfSegment(find_segment(store, index), index)

\* Segment::zeroed
Segment_zeroed(index) == [index |-> index, data |-> [k \in 1..SIZE |-> 0]]

\* find_segment_or_insert with an absent frame pushed at the back
find_segment_or_insert_pushed_back(store, index) ==
  LET floor == (index \div SIZE) * SIZE
      found == binary_search_by_key(store, floor, 1, Len(store) + 1)
  IN  IF found.tag = "Ok" THEN [segments |-> store, at |-> found.v]
      ELSE [segments |-> Append(store, Segment_zeroed(floor)), at |-> Len(store) + 1]

\* SegmentedStore::find_segment_or_insert: the store with the frame of index in
\* it, zeroed if it was absent, and the frame's position
find_segment_or_insert(store, index) ==
  LET floor == (index \div SIZE) * SIZE
      found == binary_search_by_key(store, floor, 1, Len(store) + 1)
  IN  IF found.tag = "Ok" THEN [segments |-> store, at |-> found.v]
      ELSE [segments |-> SubSeq(store, 1, found.e - 1) \o <<Segment_zeroed(floor)>>
                           \o SubSeq(store, found.e, Len(store)),
            at |-> found.e]

\* data.read(segment.bytes_at_mut(start)): as many bytes of data as fit are
\* copied to the frame from start on
ReadInto(found, start, data) ==
  [found.segments EXCEPT ![found.at].data =
     [k \in 1..SIZE |-> IF k > start /\ k - start <= Len(data)
                        THEN data[k - start] ELSE @[k]]]

\* SegmentedStore::write: the loop, one frame a turn; data.read leaves in data
\* the bytes that did not fit
RECURSIVE WriteBlocks(_, _, _, _, _)
WriteBlocks(store, index, data, start, blocks_traversed) ==
  IF data = << >> THEN store
  ELSE WriteBlocks(ReadInto(find_segment_or_insert(store,
                                                   index + (SIZE * blocks_traversed)),
                            start, data),
                   index, SubSeq(data, (SIZE - start) + 1, Len(data)), 0,
                   blocks_traversed + 1)

SegmentedStore_write(store, index, data) ==
  WriteBlocks(store, index, data, index - ((index \div SIZE) * SIZE), 0)

\* SegmentedStore::read_byte
SegmentedStore_read_byte(store, index) ==
  first_copied(SegmentedStore_read_continuous(store, index))

\* usize::div_ceil(SIZE)
div_ceil(index) == (index + (SIZE - 1)) \div SIZE

\* SegmentedStore::read_word. In the else branch 4 - low.len() is usize
\* arithmetic: a panic in a build with overflow checks and a wrap without, and
\* after the wrap bytes[..low.len()] is out of the range of the 4 bytes
SegmentedStore_read_word(store, index) ==
  IF div_ceil(index) = div_ceil(index + 4)
  THEN LET sl == SegmentedStore_read_continuous(store, index)
       IN  IF sl.tag = "None" \/ Len(sl.v) < 4 THEN None     \* sl.get(0..4)
           ELSE Some(u32_from_le_bytes(SubSeq(sl.v, 1, 4)))
  ELSE LET low == SegmentedStore_read_continuous(store, index)
           high == SegmentedStore_read_continuous(store, index + Len(low.v))
       IN  IF low.tag = "None" THEN None
           ELSE IF Len(low.v) > 4 /\ debug_assertions
           THEN Panic("attempt to subtract with overflow")
           ELSE IF high.tag = "None" THEN None
           ELSE IF Len(low.v) > 4
           THEN Panic("range end index out of range for slice of length 4")
           ELSE IF Len(high.v) < 4 - Len(low.v) THEN None  \* high.get(..missing_bytes)?
           ELSE Some(u32_from_le_bytes(low.v \o SubSeq(high.v, 1, 4 - Len(low.v))))

----------------------------------------------------------------------------
(* mips_program::storage::hybrid_store *)

\* HybridStore::new
HybridStore_new == [regions |-> << >>, fallback |-> SegmentedStore_new]

\* HybridStore::insert_continuous
insert_continuous(store, index, data) ==
  [store EXCEPT !.regions = Append(@, [index |-> index, data |-> data])]

\* ContinuousRegion::range().contains(&index)
RegionContains(r, index) == r.index <= index /\ index < r.index + Len(r.data)

\* .map(|r| &r.data[index - r.index..]) on the first region found
SliceOfFirst(regions, hits, index) ==
  IF hits = {} THEN None
  ELSE Some(SubSeq(regions[CHOOSE i \in hits : \A j \in hits : i <= j].data,
                   index - regions[CHOOSE i \in hits : \A j \in hits : i <= j].index + 1,
                   Len(regions[CHOOSE i \in hits : \A j \in hits : i <= j].data)))

\* HybridStore::try_read_continuous: the first region holding index, from index on
try_read_continuous(store, index) ==
  SliceOfFirst(store.regions,
               {i \in 1..Len(store.regions) : RegionContains(store.regions[i], index)},
               index)

\* Option::or_else
or_else(a, b) == IF a.tag = "Some" THEN a ELSE b

\* HybridStore::read
HybridStore_read(store, index) ==
  or_else(try_read_continuous(store, index),
          SegmentedStore_read_continuous(store.fallback, index))

\* a variant a slip would produce: the last byte of the slice, not the first
last_copied(sl) ==
  IF sl.tag = "None" THEN None
  ELSE IF Len(sl.v) = 0 THEN None
  ELSE Some(sl.v[Len(sl.v)])

HybridStore_read_byte_last(store, index) == last_copied(HybridStore_read(store, index))

\* HybridStore::read_byte
HybridStore_read_byte(store, index) == first_copied(HybridStore_read(store, index))

\* Some(u16::from_le_bytes([b0?, b1?]))
HalfwordOf(b0, b1) ==
  IF b0.tag = "None" \/ b1.tag = "None" THEN None
  ELSE Some(u16_from_le_bytes(<<b0.v, b1.v>>))

\* Some(u32::from_le_bytes([b0?, b1?, b2?, b3?]))
WordOf(b0, b1, b2, b3) ==
  IF b0.tag = "None" \/ b1.tag = "None" \/ b2.tag = "None" \/ b3.tag = "None"
  THEN None
  ELSE Some(u32_from_le_bytes(<<b0.v, b1.v, b2.v, b3.v>>))

\* HybridStore::read_halfword: byte by byte
HybridStore_read_halfword(store, index) ==
  HalfwordOf(HybridStore_read_byte(store, index),
             HybridStore_read_byte(store, index + 1))

\* HybridStore::read_word: byte by byte
HybridStore_read_word(store, index) ==
  WordOf(HybridStore_read_byte(store, index),
         HybridStore_read_byte(store, index + 1),
         HybridStore_read_byte(store, index + 2),
         HybridStore_read_byte(store, index + 3))

----------------------------------------------------------------------------
(* mips_program::storage::continuous *)

\* Continuous::init
Continuous_init(max_size) == [data |-> << >>, max_size |-> max_size]

\* Vec::get(i).copied()
VecGet(data, i) == IF i < Len(data) THEN Some(data[i + 1]) ELSE None

\* debug_assert!(cond): panics in a build with debug assertions
DebugAssertFails(cond) == debug_assertions /\ ~cond

\* Continuous::read_byte
Continuous_read_byte(c, index) ==
  IF DebugAssertFails(index < c.max_size) THEN Panic("index over theoretical limit")
  ELSE VecGet(c.data, index)

\* Continuous::read_halfword
Continuous_read_halfword(c, index) ==
  IF DebugAssertFails(index + 1 < c.max_size)
  THEN Panic("index over theoretical limit")
  ELSE HalfwordOf(VecGet(c.data, index), VecGet(c.data, index + 1))

\* Continuous::read_word
Continuous_read_word(c, index) ==
  IF DebugAssertFails(index + 3 < c.max_size)
  THEN Panic("index over theoretical limit")
  ELSE IF index + 4 > Len(c.data) THEN None   \* data.get(index..index + 4)?
  ELSE Some(u32_from_le_bytes(SubSeq(c.data, index + 1, index + 4)))

----------------------------------------------------------------------------
(* mips_program: interface and program image *)

\* IoInterface::read_byte / read_halfword / read_word: dispatch on the store.
\* ProgramData::read never hands out IoInterface::Segmented.
IoInterface_read_byte(io, index) ==
  IF io.kind = "Continuous" THEN Continuous_read_byte(io.store, index)
  ELSE HybridStore_read_byte(io.store, index)

IoInterface_read_halfword(io, index) ==
  IF io.kind = "Continuous" THEN Continuous_read_halfword(io.store, index)
  ELSE HybridStore_read_halfword(io.store, index)

IoInterface_read_word(io, index) ==
  IF io.kind = "Continuous" THEN Continuous_read_word(io.store, index)
  ELSE HybridStore_read_word(io.store, index)

\* ProgramDataBuilder::build: text is None or Some(bytes)
ProgramDataBuilder_build(text) ==
  [text |-> IF text.tag = "Some"
            THEN insert_continuous(HybridStore_new, 0, text.v)
            ELSE HybridStore_new,
   extern |-> Continuous_init(0),
   data |-> Continuous_init(0)]

\* ProgramData::read: every context may read Text, Extern and Data
ProgramData_read(p, section, context) ==
  IF section = "Text" THEN Some([kind |-> "Hybrid", store |-> p.text])
  ELSE IF section = "Extern" THEN Some([kind |-> "Continuous", store |-> p.extern])
  ELSE Some([kind |-> "Continuous", store |-> p.data])

----------------------------------------------------------------------------
(* mips_cpu::mem *)

TEXT_START == U32(64, 0)           \* 0x00400000
EXTERN_START == U32(4096, 0)       \* 0x10000000
TEXT_END == wrapping_sub(EXTERN_START, U32(0, 1))
DATA_START == U32(4097, 0)         \* 0x10010000
EXTERN_END == wrapping_sub(DATA_START, U32(0, 1))
HEAP_START == U32(4100, 0)         \* 0x10040000
DATA_END == wrapping_sub(HEAP_START, U32(0, 1))
KTEXT_START == U32(32768, 0)       \* 0x80000000
HEAP_END == wrapping_sub(KTEXT_START, U32(0, 1))
KDATA_START == U32(36864, 0)       \* 0x90000000
KTEXT_END == wrapping_sub(KDATA_START, U32(0, 1))

InRange(addr, first, last) == Le32(first, addr) /\ Le32(addr, last)

\* .ok_or(Exception::AddrLoadFetch).map(|e| (start, e))
ok_or_AddrLoadFetch(io, start) ==
  IF io.tag = "None" THEN Err("AddrLoadFetch")
  ELSE Ok([sub |-> start, io |-> io.v])

\* MemoryMap::core_load: (section start, interface), or todo!() outside
\* .text, .extern and .data
core_load(p, addr) ==
  IF InRange(addr, TEXT_START, TEXT_END)
  THEN ok_or_AddrLoadFetch(ProgramData_read(p, "Text", "User"), TEXT_START)
  ELSE IF InRange(addr, EXTERN_START, EXTERN_END)
  THEN ok_or_AddrLoadFetch(ProgramData_read(p, "Extern", "User"), EXTERN_START)
  ELSE IF InRange(addr, DATA_START, DATA_END)
  THEN ok_or_AddrLoadFetch(ProgramData_read(p, "Data", "User"), DATA_START)
  ELSE Panic("not yet implemented: mem fetch")

\* (addr - sub) as usize
OffsetIn(c, addr) == AsUsize(wrapping_sub(addr, c.v.sub))

\* .unwrap_or(0), a panic inside the read unwinding through it
unwrap_or_zero(read, zero) ==
  IF read.tag = "Panic" THEN read ELSE Ok(unwrap_or(read, zero))

\* .map(|(sub, io)| io.read_word((addr - sub) as usize).unwrap_or(0))
MapWord(c, addr) ==
  IF c.tag # "Ok" THEN c
  ELSE unwrap_or_zero(IoInterface_read_word(c.v.io, OffsetIn(c, addr)), U32(0, 0))

MapHalfword(c, addr) ==
  IF c.tag # "Ok" THEN c
  ELSE unwrap_or_zero(IoInterface_read_halfword(c.v.io, OffsetIn(c, addr)), 0)

MapByte(c, addr) ==
  IF c.tag # "Ok" THEN c
  ELSE unwrap_or_zero(IoInterface_read_byte(c.v.io, OffsetIn(c, addr)), 0)

\* MemoryMap::load_word
load_word(p, addr) == MapWord(core_load(p, addr), addr)

\* MemoryMap::load_halfword
load_halfword(p, addr) == MapHalfword(core_load(p, addr), addr)

\* MemoryMap::load_byte
load_byte(p, addr) == MapByte(core_load(p, addr), addr)

----------------------------------------------------------------------------
(* mips_cpu::register *)

\* Registers::init: $8 = 3, $9 = 4, every other register 0, PC at .text
Registers_init ==
  [regular |-> [n \in 0..31 |-> IF n = 8 THEN U32(0, 3)
                                ELSE IF n = 9 THEN U32(0, 4) ELSE U32(0, 0)],
   pc |-> TEXT_START,
   hi |-> U32(0, 0),
   lo |-> U32(0, 0)]

\* Registers as one value: what perform_cycle reads and writes
Regs == [regular |-> regular, pc |-> pc, hi |-> hi, lo |-> lo]

\* Unstable::VmError(reason)
Unstable_VmError(reason) == [unstable |-> "VmError", reason |-> reason]

\* <[RefCell<u32>; 32]>::default(): no register is borrowed
Unborrowed == [n \in 0..31 |-> 0]

\* Registers::r without RefCell's borrow check
Registers_r_unguarded(held, n) ==
  IF n >= 32 THEN Err(Unstable_VmError("requested register out of range"))
  ELSE Ok(n)

\* Registers::r with the handles `held` live: the handle to register n, or
\* Err(VmError) when n is out of 0..32 or register n is already borrowed
Registers_r(held, n) ==
  IF n >= 32 THEN Err(Unstable_VmError("requested register out of range"))
  ELSE IF n \in held
       THEN Err(Unstable_VmError("race condition while borrowing register"))
  ELSE Ok(n)

\* Result::unwrap on an Err: the thread panics with the error's reason
UnwrapPanic(res) == Panic(res.e.reason)

\* `a + b` and `a - b` on u32: wrapping in a release build, a panic on overflow
\* in a build with overflow checks
CheckedAdd(a, b) ==
  IF debug_assertions /\ AddOverflows(a, b) THEN Panic("attempt to add with overflow")
  ELSE Ok(wrapping_add(a, b))

CheckedSub(a, b) ==
  IF debug_assertions /\ SubOverflows(a, b)
  THEN Panic("attempt to subtract with overflow")
  ELSE Ok(wrapping_sub(a, b))

\* *handle = v
Write(R, n, v) == [R EXCEPT !.regular[n] = v]

\* a link that also moves PC to the address it stored
LinkWith_pc_moved(r, v, R, n) ==
  IF r.tag = "Err" THEN r
  ELSE IF v.tag = "Panic" THEN v
  ELSE Ok([R EXCEPT !.regular[n] = v.v, !.pc = v.v])

\* let mut r = self.r(n)?; *r = self.pc + 4; Ok(())
LinkWith(r, v, R, n) ==
  IF r.tag = "Err" THEN r
  ELSE IF v.tag = "Panic" THEN v
  ELSE Ok(Write(R, n, v.v))

\* Registers::link with the handles `held` live: register n <- pc + 4
link(R, held, n) == LinkWith(Registers_r(held, n), CheckedAdd(R.pc, U32(0, 4)), R, n)

----------------------------------------------------------------------------
(* mips_cpu::cycle::data *)

isolate_opcode(instr) == AsUsize(BitAnd32(Shr32(instr, 26), U32(0, 63)))
isolate_funct(instr) == AsUsize(BitAnd32(instr, U32(0, 63)))
isolate_rs(instr) == AsUsize(BitAnd32(Shr32(instr, 21), U32(0, 31)))
isolate_rt(instr) == AsUsize(BitAnd32(Shr32(instr, 16), U32(0, 31)))
isolate_rd(instr) == AsUsize(BitAnd32(Shr32(instr, 11), U32(0, 31)))
isolate_shamt(instr) == AsUsize(BitAnd32(Shr32(instr, 6), U32(0, 31)))
isolate_imm16(instr) == AsUsize(BitAnd32(instr, U32(0, 65535)))
isolate_target_26(instr) == BitAnd32(instr, U32(1023, 65535))

\* a variant a slip would produce: the same-sign test of the operands dropped
twos_complement_overflowed_result_only(n1, n2, r) ==
  Lt32(U32(32767, 65535), BitXor32(n1, r))

\* (n1 ^ n2) < 0x80000000 && (n1 ^ r) > 0x7fffffff
twos_complement_overflowed(n1, n2, r) ==
  /\ Lt32(BitXor32(n1, n2), U32(32768, 0))
  /\ Lt32(U32(32767, 65535), BitXor32(n1, r))

\* sign_extend: n | ext << bits, ext all ones when bit (bits - 1) of n is set;
\* bits is 16 for an immediate and 8 for a loaded byte
sign_extend(bits, n) ==
  BitOr32(n, Shl32(IF Shr32(n, bits - 1)[2] % 2 = 1
                   THEN Shr32(U32(65535, 65535), bits) ELSE U32(0, 0),
                   bits))

\* data::add_ihalf_to_uword: the word plus the sign-extended halfword, mod 2^32
add_ihalf_to_uword(word, half) == wrapping_add(word, sign_extend(16, AsU32(half)))

----------------------------------------------------------------------------
(* mips_cpu::cycle: the outcome of a cycle *)

Forward == [kind |-> "Forward"]
Branch(target) == [kind |-> "Branch", target |-> target]
Exception(e) == [kind |-> "Exception", e |-> e]
VmError(reason) == [kind |-> "VmError", reason |-> reason]

\* no outcome yet, and no outcome because the call unwound with a panic
NoNext == [kind |-> "None"]
Unwound(msg) == [kind |-> "None", panic |-> msg]

\* perform_cycle returned the outcome n, leaving the registers R
Ret(n, R) == [tag |-> "Ret", next |-> n, regs |-> R]

----------------------------------------------------------------------------
(* mips_cpu::cycle::compute *)

\* let h = reg.r(n).unwrap(); then the rest
Unwrapped(res, rest) == IF res.tag = "Err" THEN UnwrapPanic(res) ELSE rest

\* parse_arithm_r: handles to rd, rs, rt, taken in this order, each unwrapped
parse_arithm_r(instr) ==
  Unwrapped(Registers_r({}, isolate_rd(instr)),
    Unwrapped(Registers_r({isolate_rd(instr)}, isolate_rs(instr)),
      Unwrapped(Registers_r({isolate_rd(instr), isolate_rs(instr)}, isolate_rt(instr)),
                Ok([rd |-> isolate_rd(instr), rs |-> isolate_rs(instr),
                    rt |-> isolate_rt(instr)]))))

\* parse_arithm_i: handles to rt, rs, taken in this order, each unwrapped
parse_arithm_i(instr) ==
  Unwrapped(Registers_r({}, isolate_rt(instr)),
    Unwrapped(Registers_r({isolate_rt(instr)}, isolate_rs(instr)),
              Ok([rt |-> isolate_rt(instr), rs |-> isolate_rs(instr),
                  imm16 |-> isolate_imm16(instr)])))

\* parse_trap_r: handles to rs, rt, taken in this order, each unwrapped
parse_trap_r(instr) ==
  Unwrapped(Registers_r({}, isolate_rs(instr)),
    Unwrapped(Registers_r({isolate_rs(instr)}, isolate_rt(instr)),
              Ok([rs |-> isolate_rs(instr), rt |-> isolate_rt(instr)])))

\* one handle, unwrapped, with nothing else borrowed
OneHandle(n) == Unwrapped(Registers_r({}, n), Ok(n))

\* if cond { Next::Branch(addr) } else { Next::Forward }
BranchIf(cond, addr, R) == Ret(IF cond THEN Branch(addr) ELSE Forward, R)

\* beq, bne, blez, bgtz on the values read through the handles
BranchOn(opcode, rt, rs, addr, R) ==
  IF opcode = 4 THEN BranchIf(rt = rs, addr, R)
  ELSE IF opcode = 5 THEN BranchIf(rt # rs, addr, R)
  ELSE IF opcode = 6
       THEN BranchIf(rs = U32(0, 0) \/ Le32(U32(32768, 0), rs), addr, R)
  ELSE BranchIf(Le32(U32(0, 1), rs) /\ Lt32(rs, U32(32768, 0)), addr, R)

\* the arms 0x4..0x7 of perform_cycle: beq, bne, blez, bgtz, p what
\* parse_arithm_i gave
ConditionalBranch(opcode, p, R) ==
  IF p.tag = "Panic" THEN p
  ELSE BranchOn(opcode, R.regular[p.v.rt], R.regular[p.v.rs],
                add_ihalf_to_uword(R.pc, p.v.imm16), R)

\* addi: the sum, then the overflow test on it
AddImmediate(sum, rs, ext, rt, R) ==
  IF sum.tag = "Panic" THEN sum
  ELSE IF twos_complement_overflowed(rs, ext, sum.v)
       THEN Ret(Exception("Overflow"), R)
  ELSE Ret(Forward, Write(R, rt, sum.v))

\* *rt = value, value the result of an overflow-checked `+` or `-`
WriteChecked(value, rt, R) ==
  IF value.tag = "Panic" THEN value ELSE Ret(Forward, Write(R, rt, value.v))

\* *rt = (value) >> 31, value the result of an overflow-checked `-`
WriteCheckedSign(value, rt, R) ==
  IF value.tag = "Panic" THEN value
  ELSE Ret(Forward, Write(R, rt, Shr32(value.v, 31)))

\* addi, addiu, slti, sltiu, andi, ori, xori on the value of rs, the immediate
\* and its sign extension
ImmediateOn(opcode, rt, rs, imm, ext, R) ==
  IF opcode = 8 THEN AddImmediate(CheckedAdd(rs, ext), rs, ext, rt, R)
  ELSE IF opcode = 9 THEN WriteChecked(CheckedAdd(rs, ext), rt, R)
  ELSE IF opcode = 10 THEN WriteCheckedSign(CheckedSub(rs, ext), rt, R)
  ELSE IF opcode = 11
       THEN Ret(Forward, Write(R, rt, IF Lt32(rs, ext) THEN U32(0, 1) ELSE U32(0, 0)))
  ELSE IF opcode = 12 THEN Ret(Forward, Write(R, rt, BitAnd32(rs, imm)))
  ELSE IF opcode = 13 THEN Ret(Forward, Write(R, rt, BitOr32(rs, imm)))
  ELSE Ret(Forward, Write(R, rt, BitXor32(rs, imm)))

\* the arms 0x8..0xe of perform_cycle: addi, addiu, slti, sltiu, andi, ori, xori,
\* p what parse_arithm_i gave
ImmediateArithmetic(opcode, p, R) ==
  IF p.tag = "Panic" THEN p
  ELSE ImmediateOn(opcode, p.v.rt, R.regular[p.v.rs], AsU32(p.v.imm16),
                   sign_extend(16, AsU32(p.v.imm16)), R)

\* match memory.load_*(addr) { Ok(x) => { *rt = x extended; Forward },
\*                             Err(e) => Exception(e) }
LoadInto(res, signed, bits, rt, R) ==
  IF res.tag = "Panic" THEN res
  ELSE IF res.tag = "Err" THEN Ret(Exception(res.e), R)
  ELSE Ret(Forward,
           Write(R, rt, IF bits = 32 THEN res.v
                        ELSE IF signed THEN sign_extend(bits, AsU32(res.v))
                        ELSE AsU32(res.v)))

\* lb, lh, lw, lbu, lhu at the address
LoadAt(opcode, addr, rt, p, R) ==
  IF opcode = 32 THEN LoadInto(load_byte(p, addr), TRUE, 8, rt, R)
  ELSE IF opcode = 33 THEN LoadInto(load_halfword(p, addr), TRUE, 16, rt, R)
  ELSE IF opcode = 35 THEN LoadInto(load_word(p, addr), FALSE, 32, rt, R)
  ELSE IF opcode = 36 THEN LoadInto(load_byte(p, addr), FALSE, 8, rt, R)
  ELSE LoadInto(load_halfword(p, addr), FALSE, 16, rt, R)

\* the arms 0x20..0x25 of perform_cycle: lb, lh, lw, lbu, lhu, h what
\* parse_arithm_i gave
Load(opcode, h, p, R) ==
  IF h.tag = "Panic" THEN h
  ELSE LoadAt(opcode, add_ihalf_to_uword(R.regular[h.v.rs], h.v.imm16), h.v.rt, p, R)

\* the 32-bit product <<high half, low half>> of two 16-bit numbers
Mul16(x, y) ==
  <<(((x \div 256) * y) \div 256)
      + ((((((x \div 256) * y) % 256) * 256) + ((x % 256) * y)) \div HALF),
    (((((x \div 256) * y) % 256) * 256) + ((x % 256) * y)) % HALF>>

\* the 64-bit sum of the four partial products of a 32-bit multiplication
MulCarry(p00, p11, c1, c2) ==
  [lo |-> <<c1 % HALF, p00[2]>>,
   hi |-> <<((c2 \div HALF) + p11[1]) % HALF, c2 % HALF>>]

MulSum(p00, p01, p10, p11) ==
  MulCarry(p00, p11, p00[1] + p01[2] + p10[2],
           ((p00[1] + p01[2] + p10[2]) \div HALF) + p01[1] + p10[1] + p11[2])

\* u32::widening_mul: (low word, high word) of the 64-bit product
widening_mul(a, b) ==
  MulSum(Mul16(a[2], b[2]), Mul16(a[2], b[1]), Mul16(a[1], b[2]), Mul16(a[1], b[1]))

\* `a << b` with a u32 shift amount: a panic on b >= 32 in a build with overflow
\* checks, b masked to five bits in a release build
CheckedShl(a, b) ==
  IF Le32(U32(0, 32), b)
  THEN IF debug_assertions THEN Panic("attempt to shift left with overflow")
       ELSE Ok(Shl32(a, b[2] % 32))
  ELSE Ok(Shl32(a, b[2]))

\* (self.hi, self.lo) <- the product
WriteHiLo(product, R) == Ret(Forward, [R EXCEPT !.hi = product.hi, !.lo = product.lo])

\* a variant a slip would produce: rd written before the overflow test
WriteUnlessOverflowed_written_first(n1, n2, r, rd, R) ==
  IF twos_complement_overflowed(n1, n2, r)
  THEN Ret(Exception("Overflow"), Write(R, rd, r))
  ELSE Ret(Forward, Write(R, rd, r))

\* add and sub: the result r, then the overflow test on it
WriteUnlessOverflowed(n1, n2, r, rd, R) ==
  IF twos_complement_overflowed(n1, n2, r) THEN Ret(Exception("Overflow"), R)
  ELSE Ret(Forward, Write(R, rd, r))

\* the arms of handle_opcode_zero on parse_arithm_r's handles, rs and rt the
\* values read through them
ThreeRegisterOn(funct, rd, rs, rt, shamt, R) ==
  IF funct = 0 THEN Ret(Forward, Write(R, rd, Shl32(rt, shamt)))
  ELSE IF funct = 3
  THEN Ret(Forward,
           Write(R, rd, BitOr32(Shr32(rt, shamt), BitAnd32(rt, Shl32(U32(0, 1), 31)))))
  ELSE IF funct = 4 THEN WriteChecked(CheckedShl(rt, rs), rd, R)
  ELSE IF funct = 10
  THEN Ret(Forward, IF rt = U32(0, 0) THEN Write(R, rd, rs) ELSE R)
  ELSE IF funct = 11
  THEN Ret(Forward, IF rt # U32(0, 0) THEN Write(R, rd, rs) ELSE R)
  ELSE IF funct = 25 THEN WriteHiLo(widening_mul(rs, rt), R)
  ELSE IF funct = 32 THEN WriteUnlessOverflowed(rs, rt, wrapping_add(rs, rt), rd, R)
  ELSE IF funct = 33 THEN Ret(Forward, Write(R, rd, wrapping_add(rs, rt)))
  ELSE IF funct = 34 THEN WriteUnlessOverflowed(rs, rt, wrapping_sub(rs, rt), rd, R)
  ELSE IF funct = 35 THEN Ret(Forward, Write(R, rd, wrapping_sub(rs, rt)))
  ELSE IF funct = 36 THEN Ret(Forward, Write(R, rd, BitAnd32(rs, rt)))
  ELSE IF funct = 37 THEN Ret(Forward, Write(R, rd, BitOr32(rs, rt)))
  ELSE IF funct = 38 THEN Ret(Forward, Write(R, rd, BitXor32(rs, rt)))
  ELSE Ret(Forward, Write(R, rd, BitNot32(BitOr32(rs, rt))))

\* the arms of handle_opcode_zero that take parse_arithm_r's three handles, p
\* what parse_arithm_r gave
ThreeRegister(funct, p, shamt, R) ==
  IF p.tag = "Panic" THEN p
  ELSE ThreeRegisterOn(funct, p.v.rd, R.regular[p.v.rs], R.regular[p.v.rt], shamt, R)

\* registers.link(n).unwrap(); Next::Branch(target)
LinkedBranch(linked, rs, R) ==
  IF linked.tag = "Err" THEN UnwrapPanic(linked)
  ELSE IF linked.tag = "Panic" THEN linked
  ELSE Ret(Branch(linked.v.regular[rs]), linked.v)

\* the arms 0x8 and 0x9 of handle_opcode_zero: jr, jalr, rs the handle taken
\* and rd the index to link
JumpRegister(funct, rs, rd, R) ==
  IF rs.tag = "Panic" THEN rs
  ELSE IF funct = 8 THEN Ret(Branch(R.regular[rs.v]), R)
  ELSE LinkedBranch(link(R, {rs.v}, rd), rs.v, R)

\* mfhi, mflo: *rd = the special register
MoveFrom(rd, special, R) ==
  IF rd.tag = "Panic" THEN rd ELSE Ret(Forward, Write(R, rd.v, special))

\* mthi, mtlo: the special register = *rs
MoveTo(rs, special, R) ==
  IF rs.tag = "Panic" THEN rs
  ELSE Ret(Forward, [R EXCEPT ![special] = R.regular[rs.v]])

\* the arms 0x10..0x13 of handle_opcode_zero: mfhi, mthi, mflo, mtlo
MoveHiLo(funct, instr, R) ==
  IF funct = 16 THEN MoveFrom(OneHandle(isolate_rd(instr)), R.hi, R)
  ELSE IF funct = 17 THEN MoveTo(OneHandle(isolate_rs(instr)), "hi", R)
  ELSE IF funct = 18 THEN MoveFrom(OneHandle(isolate_rd(instr)), R.lo, R)
  ELSE MoveTo(OneHandle(isolate_rs(instr)), "lo", R)

\* tgeu, tltu, teq, tne on the values read through the handles
TrapOn(funct, rs, rt, R) ==
  Ret(IF (IF funct = 49 THEN Le32(rt, rs)
          ELSE IF funct = 51 THEN Lt32(rs, rt)
          ELSE IF funct = 52 THEN rs = rt
          ELSE rs # rt)
      THEN Exception("Trap") ELSE Forward, R)

\* the arms 0x31, 0x33, 0x34, 0x36 of handle_opcode_zero: tgeu, tltu, teq, tne,
\* p what parse_trap_r gave
TrapIf(funct, p, R) ==
  IF p.tag = "Panic" THEN p
  ELSE TrapOn(funct, R.regular[p.v.rs], R.regular[p.v.rt], R)

\* the functs handle_opcode_zero has an arm for
ThreeRegisterFuncts == {0, 3, 4, 10, 11, 25, 32, 33, 34, 35, 36, 37, 38, 39}
JumpRegisterFuncts == {8, 9}
MoveHiLoFuncts == {16, 17, 18, 19}
TrapFuncts == {49, 51, 52, 54}

ZeroDispatch(funct, instr, R) ==
  IF funct \in ThreeRegisterFuncts
  THEN ThreeRegister(funct, parse_arithm_r(instr), isolate_shamt(instr), R)
  ELSE IF funct \in JumpRegisterFuncts
  THEN JumpRegister(funct, OneHandle(isolate_rs(instr)), isolate_rd(instr), R)
  ELSE IF funct \in MoveHiLoFuncts THEN MoveHiLo(funct, instr, R)
  ELSE IF funct \in TrapFuncts THEN TrapIf(funct, parse_trap_r(instr), R)
  ELSE Panic("not yet implemented")

\* handle_opcode_zero: dispatch on funct, todo!() for the others
handle_opcode_zero(instr, R) == ZeroDispatch(isolate_funct(instr), instr, R)

\* registers.link(31).unwrap(); Next::Branch(addr)
LinkThenBranch(linked, addr) ==
  IF linked.tag = "Err" THEN UnwrapPanic(linked)
  ELSE IF linked.tag = "Panic" THEN linked
  ELSE Ret(Branch(addr), linked.v)

\* the same with rt and rs still borrowed
LinkAndBranch(held, addr, R) == LinkThenBranch(link(R, held, 31), addr)

\* bltz, bgez, bltzal, bgezal, selected by the value *rt
OneOn(rt, negative, held, addr, R) ==
  IF rt = U32(0, 0) THEN BranchIf(negative, addr, R)
  ELSE IF rt = U32(0, 1) THEN BranchIf(~negative, addr, R)
  ELSE IF rt = U32(0, 16)
  THEN IF negative THEN LinkAndBranch(held, addr, R) ELSE Ret(Forward, R)
  ELSE IF rt = U32(0, 17)
  THEN IF ~negative THEN LinkAndBranch(held, addr, R) ELSE Ret(Forward, R)
  ELSE Panic("not implemented")

OneWith(p, R) ==
  IF p.tag = "Panic" THEN p
  ELSE OneOn(R.regular[p.v.rt], Le32(U32(32768, 0), R.regular[p.v.rs]),
             {p.v.rt, p.v.rs}, add_ihalf_to_uword(R.pc, p.v.imm16), R)

\* handle_opcode_one: dispatch on the value *rt read through the handle to
\* register rt: bltz, bgez, bltzal, bgezal, unimplemented!() for the others
handle_opcode_one(instr, R) == OneWith(parse_arithm_i(instr), R)

\* the arms 0x2 and 0x3 of perform_cycle: j, jal
Jump(opcode, instr, R) ==
  IF opcode = 2 THEN Ret(Branch(isolate_target_26(instr)), R)
  ELSE LinkThenBranch(link(R, {}, 31), isolate_target_26(instr))

\* the arm 0xf of perform_cycle: lui, rt the handle taken
LoadUpperImmediate(rt, imm16, R) ==
  IF rt.tag = "Panic" THEN rt
  ELSE Ret(Forward, Write(R, rt.v, Shl32(AsU32(imm16), 16)))

\* the opcodes perform_cycle has an arm for, beside 0x0 and 0x1
JumpOpcodes == {2, 3}
BranchOpcodes == {4, 5, 6, 7}
ImmediateOpcodes == {8, 9, 10, 11, 12, 13, 14}
LoadOpcodes == {32, 33, 35, 36, 37}

\* match opcode { .. }, unimplemented!() for the others
Dispatch(opcode, instr, p, R) ==
  IF opcode = 0 THEN handle_opcode_zero(instr, R)
  ELSE IF opcode = 1 THEN handle_opcode_one(instr, R)
  ELSE IF opcode \in JumpOpcodes THEN Jump(opcode, instr, R)
  ELSE IF opcode \in BranchOpcodes
  THEN ConditionalBranch(opcode, parse_arithm_i(instr), R)
  ELSE IF opcode \in ImmediateOpcodes
  THEN ImmediateArithmetic(opcode, parse_arithm_i(instr), R)
  ELSE IF opcode = 15
  THEN LoadUpperImmediate(OneHandle(isolate_rt(instr)), isolate_imm16(instr), R)
  ELSE IF opcode \in LoadOpcodes THEN Load(opcode, parse_arithm_i(instr), p, R)
  ELSE Panic("not implemented")

\* let instruction = match memory.load_word(pc) { Ok(i) => i, Err(e) => return e }
Fetched(fetched, p, R) ==
  IF fetched.tag = "Panic" THEN fetched
  ELSE IF fetched.tag = "Err" THEN Ret(Exception(fetched.e), R)
  ELSE Dispatch(isolate_opcode(fetched.v), fetched.v, p, R)

\* perform_cycle: fetch at pc, dispatch on the opcode; Ret(outcome, registers)
\* or the panic that unwound it
perform_cycle(p, R) == Fetched(load_word(p, R.pc), p, R)

----------------------------------------------------------------------------
(* MemSpec: a program image is built, then the memory map is read through *)
(* MemoryMap::load_word / load_halfword / load_byte.                      *)

\* byte values the loader's images are made of
ByteVals == {1, 254}

RECURSIVE SeqsUpTo(_, _)
SeqsUpTo(S, n) ==
  IF n = 0 THEN {<< >>}
  ELSE LET shorter == SeqsUpTo(S, n - 1)
       IN  shorter \cup {Append(q, x) : q \in {t \in shorter : Len(t) = n - 1}, x \in S}

\* the .text images of MemSpec: none, or up to MaxTextLen bytes
TextImages == {None} \cup {Some(b) : b \in SeqsUpTo(ByteVals, MaxTextLen)}

\* the addresses MemSpec loads from: the image's bytes and the two after them,
\* and the first and last words of every section of the memory map
LoadAddrs ==
  {wrapping_add(TEXT_START, AsU32(k)) : k \in 0..(MaxTextLen + 1)}
  \cup {U32(0, 0), U32(63, 65532), TEXT_END, wrapping_sub(TEXT_END, U32(0, 3)),
        EXTERN_START, wrapping_add(EXTERN_START, U32(0, 1)),
        wrapping_add(EXTERN_START, U32(0, 2)), wrapping_sub(EXTERN_END, U32(0, 3)),
        DATA_START, wrapping_add(DATA_START, U32(0, 1)),
        wrapping_add(DATA_START, U32(0, 2)), wrapping_sub(DATA_END, U32(0, 3)),
        HEAP_START, wrapping_sub(HEAP_END, U32(0, 3)),
        KTEXT_START, wrapping_sub(KTEXT_END, U32(0, 3)),
        KDATA_START, U32(65535, 65532)}

MemInit ==
  /\ segmented = SegmentedStore_new
  /\ debug_assertions \in BOOLEAN
  /\ image \in TextImages
  /\ program = ProgramDataBuilder_build(image)
  /\ regular = Registers_init.regular
  /\ pc = Registers_init.pc
  /\ hi = Registers_init.hi
  /\ lo = Registers_init.lo
  /\ next = NoNext
  /\ phase = "ready"
  /\ before = Registers_init
  /\ cycles = 0
  /\ loaded = [op |-> "none"]
  /\ borrows = Unborrowed
  /\ written = << >>

\* a load made through the API; a panic unwinds the thread
ApiLoad(op, addr, res) ==
  /\ phase = "ready"
  /\ loaded' = [op |-> op, addr |-> addr, res |-> res]
  /\ phase' = IF res.tag = "Panic" THEN "panicked" ELSE phase
  /\ UNCHANGED <<written, borrows, segmented, debug_assertions, program, regular, pc,
                 hi, lo, next, before, cycles, image>>

LoadWord(addr) == ApiLoad("load_word", addr, load_word(program, addr))

LoadHalfword(addr) == ApiLoad("load_halfword", addr, load_halfword(program, addr))

LoadByte(addr) == ApiLoad("load_byte", addr, load_byte(program, addr))

MemNext ==
  \E addr \in LoadAddrs :
    \/ LoadWord(addr)
    \/ LoadHalfword(addr)
    \/ LoadByte(addr)

MemSpec == MemInit /\ [][MemNext]_vars

----------------------------------------------------------------------------
(* Spec: a CPU is built around a program image and runs it, one cycle at a *)
(* time: perform_cycle, then the driver's update of the program counter.   *)

\* instruction words, by format
EncodeR(rs, rt, rd, shamt, funct) ==
  U32((rs * 32) + rt, (rd * 2048) + (shamt * 64) + funct)
EncodeI(opcode, rs, rt, imm16) == U32((opcode * 1024) + (rs * 32) + rt, imm16)
EncodeJ(opcode, target) ==
  U32((opcode * 1024) + (target \div HALF), target % HALF)

\* u32::to_le_bytes
to_le_bytes(w) == <<w[2] % 256, w[2] \div 256, w[1] % 256, w[1] \div 256>>

\* the image of a sequence of instruction words
RECURSIVE Assemble(_)
Assemble(words) ==
  IF words = << >> THEN << >>
  ELSE to_le_bytes(Head(words)) \o Assemble(Tail(words))

\* halves the operand values are made of
OperandHighs == {0, 32767, 32768, 65535}
OperandLows == {0, 1, 65535}

\* lui $10, h1; ori $11, $10, l1; lui $12, h2; ori $13, $12, l2:
\* leaves $11 = h1:l1 and $13 = h2:l2
BuildOperands(h1, l1, h2, l2) ==
  <<EncodeI(15, 0, 10, h1), EncodeI(13, 10, 11, l1),
    EncodeI(15, 0, 12, h2), EncodeI(13, 12, 13, l2)>>

\* the two operands built, then add, addu or sub $14, $11, $13
OperandPrograms ==
  {BuildOperands(h1, l1, h2, l2) \o <<EncodeR(11, 13, 14, 0, funct)>> :
     h1 \in OperandHighs, l1 \in OperandLows,
     h2 \in OperandHighs, l2 \in OperandLows, funct \in {32, 33, 34}}

\* instructions run from the registers of Registers::init
InitInstrs ==
  {EncodeI(9, 8, 0, 0),          \* addiu $0, $8, 0
   EncodeI(9, 0, 10, 5),         \* addiu $10, $0, 5
   EncodeI(9, 8, 8, 1),          \* addiu $8, $8, 1
   EncodeI(9, 8, 10, 65535),     \* addiu $10, $8, -1
   EncodeI(8, 8, 10, 1),         \* addi $10, $8, 1
   EncodeI(8, 8, 10, 65535),     \* addi $10, $8, -1
   EncodeI(15, 0, 0, 1),         \* lui $0, 1
   EncodeI(15, 0, 11, 64),       \* lui $11, 0x0040
   EncodeI(15, 0, 11, 4100),     \* lui $11, 0x1004
   EncodeI(15, 0, 11, 32768),    \* lui $11, 0x8000
   EncodeI(13, 8, 10, 65535),    \* ori $10, $8, 0xFFFF
   EncodeI(15, 0, 8, 32767),     \* lui $8, 0x7FFF
   EncodeI(13, 8, 8, 65535),     \* ori $8, $8, 0xFFFF
   EncodeR(8, 9, 10, 0, 33),     \* addu $10, $8, $9
   EncodeR(8, 9, 8, 0, 33),      \* addu $8, $8, $9
   EncodeR(8, 9, 9, 0, 33),      \* addu $9, $8, $9
   EncodeR(8, 8, 10, 0, 33),     \* addu $10, $8, $8
   EncodeR(9, 8, 10, 0, 35),     \* subu $10, $9, $8
   EncodeR(8, 9, 10, 0, 34),     \* sub $10, $8, $9
   EncodeR(8, 9, 8, 0, 36),      \* and $8, $8, $9
   EncodeR(8, 9, 10, 0, 39),     \* nor $10, $8, $9
   EncodeR(0, 8, 10, 2, 0),      \* sll $10, $8, 2
   EncodeR(0, 0, 0, 0, 0),       \* sll $0, $0, 0: the all-zero word
   EncodeR(0, 8, 10, 1, 2),      \* srl $10, $8, 1: funct 0x02
   EncodeR(0, 8, 10, 1, 3),      \* sra $10, $8, 1
   EncodeR(0, 11, 10, 1, 3),     \* sra $10, $11, 1
   EncodeR(0, 11, 10, 4, 3),     \* sra $10, $11, 4
   EncodeR(8, 9, 0, 0, 25),      \* multu $8, $9
   EncodeR(0, 0, 10, 0, 16),     \* mfhi $10
   EncodeR(8, 0, 0, 0, 17),      \* mthi $8
   EncodeR(0, 0, 10, 0, 18),     \* mflo $10
   EncodeR(9, 0, 0, 0, 19),      \* mtlo $9
   EncodeR(8, 0, 0, 0, 8),       \* jr $8
   EncodeR(11, 0, 31, 0, 9),     \* jalr $11
   EncodeR(8, 9, 0, 0, 52),      \* teq $8, $9
   EncodeR(8, 9, 0, 0, 54),      \* tne $8, $9
   EncodeR(9, 8, 0, 0, 49),      \* tgeu $9, $8
   EncodeR(8, 9, 0, 0, 51),      \* tltu $8, $9
   EncodeI(35, 11, 10, 0),       \* lw $10, 0($11)
   EncodeI(35, 11, 10, 1),       \* lw $10, 1($11)
   EncodeI(32, 11, 10, 5),       \* lb $10, 5($11)
   EncodeI(43, 11, 10, 0),       \* sw $10, 0($11): opcode 0x2B
   EncodeI(63, 0, 0, 0),         \* opcode 0x3F
   EncodeI(1, 8, 1, 1),          \* REGIMM, rt field 0x01 (bgez $8, 1)
   EncodeI(1, 9, 8, 1),          \* REGIMM, rt field 0x08
   EncodeI(1, 8, 17, 1),         \* REGIMM, rt field 0x11 (bgezal $8, 1)
   EncodeI(9, 0, 17, 17),        \* addiu $17, $0, 17
   EncodeI(4, 10, 11, 1),        \* beq $10, $11, 1
   EncodeI(4, 0, 0, 1),          \* beq $0, $0, 1
   EncodeI(6, 8, 0, 1),          \* blez $8, 1
   EncodeI(7, 8, 0, 1),          \* bgtz $8, 1
   EncodeI(5, 8, 9, 1),          \* bne $8, $9, 1
   EncodeJ(2, 1048580),          \* j 0x100004
   EncodeJ(3, 1048580)}          \* jal 0x100004

\* lui $11, 0x8000; addiu $16, $0, 16; REGIMM, rt field 0x10 (bltzal $11, 1)
LinkPrograms ==
  {<<EncodeI(15, 0, 11, 32768), EncodeI(9, 0, 16, 16), EncodeI(1, 11, 16, 1)>>}

\* the programs of Spec: one or two instructions run from the registers of
\* Registers::init, an add, addu or sub on two built operands, or a linking
\* branch on a negative register
Programs ==
  {<<i>> : i \in InitInstrs} \cup {<<i, j>> : i \in InitInstrs, j \in InitInstrs}
    \cup OperandPrograms \cup LinkPrograms

Init ==
  /\ segmented = SegmentedStore_new
  /\ debug_assertions \in BOOLEAN
  /\ image \in {Some(Assemble(words)) : words \in Programs}
  /\ program = ProgramDataBuilder_build(image)
  /\ regular = Registers_init.regular
  /\ pc = Registers_init.pc
  /\ hi = Registers_init.hi
  /\ lo = Registers_init.lo
  /\ next = NoNext
  /\ phase = "ready"
  /\ before = Registers_init
  /\ cycles = 0
  /\ loaded = [op |-> "none"]
  /\ borrows = Unborrowed
  /\ written = << >>

\* the call's effect on the CPU: the outcome and the registers it left, or the
\* unwinding of the thread
Complete(x) ==
  IF x.tag = "Panic"
  THEN /\ next' = Unwound(x.msg)
       /\ phase' = "panicked"
       /\ UNCHANGED <<regular, pc, hi, lo>>
  ELSE /\ next' = x.next
       /\ phase' = "returned"
       /\ regular' = x.regs.regular
       /\ pc' = x.regs.pc
       /\ hi' = x.regs.hi
       /\ lo' = x.regs.lo

\* one call of perform_cycle on the CPU's memory map and registers
PerformCycle ==
  /\ phase = "ready"
  /\ cycles < MaxCycles
  /\ before' = Regs
  /\ cycles' = cycles + 1
  /\ Complete(perform_cycle(program, Regs))
  /\ UNCHANGED <<written, borrows, segmented, debug_assertions, program, image, loaded>>

\* the driver consumes the outcome: Forward moves PC to PC + 4
UpdatePcForward ==
  /\ phase = "returned"
  /\ next.kind = "Forward"
  /\ pc' = wrapping_add(pc, U32(0, 4))
  /\ phase' = "ready"
  /\ UNCHANGED <<written, borrows, segmented, debug_assertions, program, regular, hi,
                 lo, next, before, cycles, image, loaded>>

\* the driver consumes the outcome: Branch(t) moves PC to t
UpdatePcBranch ==
  /\ phase = "returned"
  /\ next.kind = "Branch"
  /\ pc' = next.target
  /\ phase' = "ready"
  /\ UNCHANGED <<written, borrows, segmented, debug_assertions, program, regular, hi,
                 lo, next, before, cycles, image, loaded>>

Next ==
  \/ PerformCycle
  \/ UpdatePcForward
  \/ UpdatePcBranch

Spec == Init /\ [][Next]_vars

----------------------------------------------------------------------------
(* mips_cpu (lib.rs): the crate root's own Memory, Registers and Cpu, and the
   driver Cpu::next built on them *)

\* Memory::load_word: assert_eq!(addr / 4, 0), then the bytes of .text at
\* addr - TEXT_START, or a panic
Memory_load_word(text, addr) ==
  IF addr[1] # 0 \/ addr[2] \div 4 # 0 THEN Panic("unaligned memory read")
  ELSE IF InRange(addr, TEXT_START, TEXT_END)
  THEN IF AsUsize(wrapping_sub(addr, TEXT_START)) + 4 > Len(text)
       THEN Panic("read into uninitialized memory")
       ELSE Ok(u32_from_le_bytes(SubSeq(text,
                                        AsUsize(wrapping_sub(addr, TEXT_START)) + 1,
                                        AsUsize(wrapping_sub(addr, TEXT_START)) + 4)))
  ELSE Panic("invalid mem reference")

\* register_triad: RefCell::borrow_mut of rd, rs and rt, all three held at once
register_triad(instr) ==
  IF \/ isolate_rd(instr) = isolate_rs(instr)
     \/ isolate_rd(instr) = isolate_rt(instr)
     \/ isolate_rs(instr) = isolate_rt(instr)
  THEN Panic("already borrowed: BorrowMutError")
  ELSE Ok([rd |-> isolate_rd(instr), rs |-> isolate_rs(instr), rt |-> isolate_rt(instr)])

\* what an arm leaves: the registers, or a panic; an overflow of add or sub is
\* panic!("trap: overflow")
Cpu_arm(res) ==
  IF res.tag = "Panic" THEN res
  ELSE IF res.next.kind = "Exception" THEN Panic("trap: overflow")
  ELSE Ok(res.regs)

\* the crate root's handle_opcode_zero: multu multiplies the field values rs and
\* rt themselves; the other arms are those of cycle::compute on register_triad's
\* handles; every other funct is todo!()
Cpu_handle_opcode_zero(instr, R) ==
  IF isolate_funct(instr) = 25
  THEN Cpu_arm(WriteHiLo(widening_mul(U32(0, isolate_rs(instr)),
                                      U32(0, isolate_rt(instr))), R))
  ELSE IF isolate_funct(instr) \in {0, 3, 4, 32, 33, 34, 35, 36, 37, 38, 39}
  THEN Cpu_arm(ThreeRegister(isolate_funct(instr), register_triad(instr),
                             isolate_shamt(instr), R))
  ELSE Panic("not yet implemented")

\* Cpu::new: Registers::default() with r8 = 1 and r9 = 2; PC, HI and LO are 0
Cpu_new ==
  [regular |-> [n \in 0..31 |-> IF n = 8 THEN U32(0, 1)
                                ELSE IF n = 9 THEN U32(0, 2) ELSE U32(0, 0)],
   pc |-> U32(0, 0), hi |-> U32(0, 0), lo |-> U32(0, 0)]

\* Cpu::next: the word at TEXT_START + pc, then the match on its opcode
\* (0 => handle_opcode_zero, _ => todo!()); nothing assigns registers.pc
Cpu_next(text, R) ==
  IF debug_assertions /\ AddOverflows(TEXT_START, R.pc)
  THEN Panic("attempt to add with overflow")
  ELSE LET instr == Memory_load_word(text, wrapping_add(TEXT_START, R.pc))
       IN  IF instr.tag = "Panic" THEN instr
           ELSE IF isolate_opcode(instr.v) = 0 THEN Cpu_handle_opcode_zero(instr.v, R)
           ELSE Panic("not yet implemented")

\* CpuSpec: Cpu::new on a program, then calls of Cpu::next

CpuInit ==
  /\ segmented = SegmentedStore_new
  /\ debug_assertions \in BOOLEAN
  /\ image \in {Some(Assemble(words)) : words \in Programs}
  /\ program = ProgramDataBuilder_build(image)
  /\ regular = Cpu_new.regular
  /\ pc = Cpu_new.pc
  /\ hi = Cpu_new.hi
  /\ lo = Cpu_new.lo
  /\ next = NoNext
  /\ phase = "ready"
  /\ before = Cpu_new
  /\ cycles = 0
  /\ loaded = [op |-> "none"]
  /\ borrows = Unborrowed
  /\ written = << >>

\* the call's effect on the CPU: the registers it left, or the panic
CpuComplete(x) ==
  IF x.tag = "Panic"
  THEN /\ next' = Unwound(x.msg)
       /\ phase' = "panicked"
       /\ UNCHANGED <<regular, pc, hi, lo>>
  ELSE /\ next' = NoNext
       /\ phase' = "ready"
       /\ regular' = x.v.regular
       /\ pc' = x.v.pc
       /\ hi' = x.v.hi
       /\ lo' = x.v.lo

\* one call of Cpu::next
CpuNext ==
  /\ phase = "ready"
  /\ cycles < MaxCycles
  /\ before' = Regs
  /\ cycles' = cycles + 1
  /\ CpuComplete(Cpu_next(image.v, Regs))
  /\ UNCHANGED <<written, borrows, segmented, debug_assertions, program, image, loaded>>

CpuSpec == CpuInit /\ [][CpuNext]_vars

\* SegSpec: a SegmentedStore, written with words and read back

\* the offsets written and read: the start of a frame, inside one, the last
\* word of one, the last three bytes of one, the second frame
StoreOffsets == {0, 2044, 2045, 2047, SIZE, SIZE + 2045}

\* the word written: 0x04030201, its four bytes distinct
StoreWords == {U32(1027, 513)}

SegInit ==
  /\ segmented = SegmentedStore_new
  /\ debug_assertions \in BOOLEAN
  /\ image = None
  /\ program = ProgramDataBuilder_build(image)
  /\ regular = Registers_init.regular
  /\ pc = Registers_init.pc
  /\ hi = Registers_init.hi
  /\ lo = Registers_init.lo
  /\ next = NoNext
  /\ phase = "ready"
  /\ before = Registers_init
  /\ cycles = 0
  /\ loaded = [op |-> "none"]
  /\ borrows = Unborrowed
  /\ written = << >>

\* store.write(index, &word.to_le_bytes())
StoreWrite(index, word) ==
  /\ phase = "ready"
  /\ cycles < MaxWrites
  /\ cycles' = cycles + 1
  /\ segmented' = SegmentedStore_write(segmented, index, to_le_bytes(word))
  /\ loaded' = [op |-> "write", addr |-> index, res |-> Ok(word)]
  /\ UNCHANGED <<written, borrows, debug_assertions, program, regular, pc, hi, lo, next,
                 phase, before, image>>

\* a read of the store; a panic unwinds the thread
StoreRead(op, index, res) ==
  /\ phase = "ready"
  /\ loaded' = [op |-> op, addr |-> index, res |-> res]
  /\ phase' = IF res.tag = "Panic" THEN "panicked" ELSE phase
  /\ UNCHANGED <<written, borrows, segmented, debug_assertions, program, regular, pc,
                 hi, lo, next, before, cycles, image>>

SegNext ==
  \E index \in StoreOffsets :
    \/ \E word \in StoreWords : StoreWrite(index, word)
    \/ StoreRead("read_word", index, SegmentedStore_read_word(segmented, index))
    \/ StoreRead("read_byte", index, SegmentedStore_read_byte(segmented, index))

SegSpec == SegInit /\ [][SegNext]_vars

----------------------------------------------------------------------------
(* WriteSpec: a SegmentedStore written with data of several lengths *)

\* n bytes, none of them zero, neighbours distinct
BytesOf(n) == [k \in 1..n |-> (k % 255) + 1]

\* the write calls made: no data, a byte at the end of a frame, a word at the
\* start of one, data across the end of a frame, data that fills one frame, data
\* over three frames, and data in a frame far from the others
WriteCalls ==
  {[index |-> 10, data |-> << >>],
   [index |-> SIZE - 1, data |-> <<9>>],
   [index |-> 0, data |-> <<1, 2, 3, 4>>],
   [index |-> SIZE - 3, data |-> <<11, 12, 13, 14, 15, 16>>],
   [index |-> (2 * SIZE) - 2, data |-> <<21, 22, 23, 24>>],
   [index |-> SIZE, data |-> BytesOf(SIZE)],
   [index |-> SIZE + 2045, data |-> BytesOf(SIZE + 6)],
   [index |-> 5 * SIZE, data |-> <<31, 32>>]}

WriteInit ==
  /\ segmented = SegmentedStore_new
  /\ debug_assertions \in BOOLEAN
  /\ image = None
  /\ program = ProgramDataBuilder_build(image)
  /\ regular = Registers_init.regular
  /\ pc = Registers_init.pc
  /\ hi = Registers_init.hi
  /\ lo = Registers_init.lo
  /\ next = NoNext
  /\ phase = "ready"
  /\ before = Registers_init
  /\ cycles = 0
  /\ loaded = [op |-> "none"]
  /\ borrows = Unborrowed
  /\ written = << >>

\* store.write(index, data)
WriteData(call) ==
  /\ cycles < MaxWrites
  /\ cycles' = cycles + 1
  /\ segmented' = SegmentedStore_write(segmented, call.index, call.data)
  /\ written' = Append(written, call)
  /\ UNCHANGED <<borrows, debug_assertions, program, regular, pc, hi, lo, next, phase,
                 before, image, loaded>>

WriteNext == \E call \in WriteCalls : WriteData(call)

WriteSpec == WriteInit /\ [][WriteNext]_vars

----------------------------------------------------------------------------
(* RegSpec: handles to the general registers, taken with Registers::r and
   dropped, in any order *)

\* the register indices asked for: the first, $8 and $9, the last, and two past
\* the end of the register file
RegIndices == {0, 8, 9, 31, 32, 33}

\* the registers to which a handle is live
Held == {n \in 0..31 : borrows[n] > 0}

RegInit ==
  /\ segmented = SegmentedStore_new
  /\ debug_assertions \in BOOLEAN
  /\ image = None
  /\ program = ProgramDataBuilder_build(image)
  /\ regular = Registers_init.regular
  /\ pc = Registers_init.pc
  /\ hi = Registers_init.hi
  /\ lo = Registers_init.lo
  /\ next = NoNext
  /\ phase = "ready"
  /\ before = Registers_init
  /\ cycles = 0
  /\ loaded = [op |-> "none"]
  /\ borrows = Unborrowed
  /\ written = << >>

\* registers.r(n): an Ok carries a RefMut, which stays live until it is dropped
Borrow(n) ==
  /\ loaded' = [op |-> "r", addr |-> n, res |-> Registers_r(Held, n)]
  /\ borrows' = IF Registers_r(Held, n).tag = "Ok"
                THEN [borrows EXCEPT ![n] = @ + 1] ELSE borrows
  /\ UNCHANGED <<written, segmented, debug_assertions, program, regular, pc, hi, lo,
                 next, phase, before, cycles, image>>

\* a RefMut to register n goes out of scope
Release(n) ==
  /\ n \in Held
  /\ loaded' = [op |-> "drop", addr |-> n, res |-> Ok(n)]
  /\ borrows' = [borrows EXCEPT ![n] = @ - 1]
  /\ UNCHANGED <<written, segmented, debug_assertions, program, regular, pc, hi, lo,
                 next, phase, before, cycles, image>>

RegNext ==
  \E n \in RegIndices :
    \/ Borrow(n)
    \/ Release(n)

RegSpec == RegInit /\ [][RegNext]_vars

----------------------------------------------------------------------------
(* Properties of the cycle engine, checked under Spec *)

\* a call of perform_cycle has ended and the driver has not yet consumed it
CycleEnded == phase # "ready"

\* the instruction word the last cycle fetched
FetchedWord == load_word(program, before.pc)

\* the last cycle fetched an instruction word, and its fields
Decoded == CycleEnded /\ FetchedWord.tag = "Ok"
Opcode == isolate_opcode(FetchedWord.v)
Funct == isolate_funct(FetchedWord.v)
RsField == isolate_rs(FetchedWord.v)
RtField == isolate_rt(FetchedWord.v)
RdField == isolate_rd(FetchedWord.v)
ShamtField == isolate_shamt(FetchedWord.v)

\* the last call left every register as it found it
RegistersUnchanged ==
  /\ regular = before.regular
  /\ pc = before.pc
  /\ hi = before.hi
  /\ lo = before.lo

\* C1: general register 0 reads as zero in every reachable state, also after an
\* instruction whose destination index is 0 (addiu $0, $8, 0; lui $0, 1).
C1_RegisterZeroReadsZero == regular[0] = U32(0, 0)

\* the R-type instructions that write rd = f(rs, rt) and raise nothing
WritingFuncts == {0, 33, 35, 36, 37, 38, 39}

\* what such an instruction computes from the values a of rs and b of rt
ResultOf(funct, a, b, shamt) ==
  IF funct = 0 THEN Shl32(b, shamt)
  ELSE IF funct = 33 THEN wrapping_add(a, b)
  ELSE IF funct = 35 THEN wrapping_sub(a, b)
  ELSE IF funct = 36 THEN BitAnd32(a, b)
  ELSE IF funct = 37 THEN BitOr32(a, b)
  ELSE IF funct = 38 THEN BitXor32(a, b)
  ELSE BitNot32(BitOr32(a, b))

\* C2: an R-type instruction with rd = rs, rd = rt or rs = rt (the all-zero word
\* sll $0, $0, 0 among them) completes with Forward, and rd holds the result
\* computed from the values rs and rt had before the cycle.
C2_OverlappingRegistersLegal ==
  (/\ Decoded
   /\ Opcode = 0
   /\ Funct \in WritingFuncts
   /\ (RdField = RsField \/ RdField = RtField \/ RsField = RtField))
    => /\ phase = "returned"
       /\ next = Forward
       /\ regular[RdField] = ResultOf(Funct, before.regular[RsField],
                                      before.regular[RtField], ShamtField)

\* the last cycle asked for a handle to a register it already held one to
HandleRefused ==
  /\ Decoded
  /\ \/ /\ Opcode = 0
        /\ Funct \in ThreeRegisterFuncts
        /\ (RdField = RsField \/ RdField = RtField \/ RsField = RtField)
     \/ Opcode = 0 /\ Funct \in TrapFuncts /\ RsField = RtField
     \/ Opcode = 0 /\ Funct = 9 /\ RdField = RsField
     \/ /\ Opcode \in ({1} \cup BranchOpcodes \cup ImmediateOpcodes \cup LoadOpcodes)
        /\ RtField = RsField

\* C3: a cycle in which a register handle cannot be obtained ends with the
\* outcome VmError(reason): not with an Exception, and not without an outcome.
C3_RefusedHandleYieldsVmError ==
  HandleRefused => (phase = "returned" /\ next.kind = "VmError")

\* the fetched word's opcode, funct (opcode 0) or REGIMM selector (opcode 1) is
\* none of the implemented ones
NotImplemented ==
  /\ Decoded
  /\ \/ Opcode \notin ({0, 1, 15} \cup JumpOpcodes \cup BranchOpcodes
                       \cup ImmediateOpcodes \cup LoadOpcodes)
     \/ /\ Opcode = 0
        /\ Funct \notin (ThreeRegisterFuncts \cup JumpRegisterFuncts
                         \cup MoveHiLoFuncts \cup TrapFuncts)
     \/ Opcode = 1 /\ RtField \notin {0, 1, 16, 17}

\* C4: a cycle that fetches an instruction word that is not implemented (srl
\* funct 0x02, sw opcode 0x2B, opcode 0x3F) returns the outcome VmError and
\* changes no register.
C4_NotImplementedYieldsVmError ==
  NotImplemented =>
    (phase = "returned" /\ next.kind = "VmError" /\ RegistersUnchanged)

----------------------------------------------------------------------------
(* Properties of the memory map, checked under MemSpec *)

InText(addr) == InRange(addr, TEXT_START, TEXT_END)
InExtern(addr) == InRange(addr, EXTERN_START, EXTERN_END)
InData(addr) == InRange(addr, DATA_START, DATA_END)
InHeap(addr) == InRange(addr, HEAP_START, HEAP_END)

\* the bytes the access (op, addr) covers
WidthOf(op) == IF op = "load_word" THEN 4 ELSE IF op = "load_halfword" THEN 2 ELSE 1

\* addr is a multiple of n (n a power of two up to 4)
AlignedTo(addr, n) == addr[2] % n = 0

\* offset of a .text address in the section
TextOffset(addr) == AsUsize(wrapping_sub(addr, TEXT_START))

\* the image's length, 0 when the loader supplied none
ImageLen == IF image.tag = "Some" THEN Len(image.v) ELSE 0

\* byte k of the image, 0 past its end
ImageByte(k) == IF k < ImageLen THEN image.v[k + 1] ELSE 0

\* b0 + 256*b1 + 65536*b2 + 16777216*b3 as a u32
LittleEndian(b0, b1, b2, b3) ==
  wrapping_add(AsU32(b0 + (256 * b1)), Shl32(AsU32(b2 + (256 * b3)), 16))

\* the value the image gives the access at .text offset o, zero-filled past its end
ImageValue(op, o) ==
  IF op = "load_word"
  THEN LittleEndian(ImageByte(o), ImageByte(o + 1), ImageByte(o + 2), ImageByte(o + 3))
  ELSE IF op = "load_halfword" THEN ImageByte(o) + (256 * ImageByte(o + 1))
  ELSE ImageByte(o)

ZeroOf(op) == IF op = "load_word" THEN U32(0, 0) ELSE 0

\* C5: a load_word at an address with addr & 3 # 0, and a load_halfword at an
\* address with addr & 1 # 0, returns the AddrLoadFetch exception and no value.
C5_MisalignedLoadRaises ==
  /\ (loaded.op = "load_word" /\ ~AlignedTo(loaded.addr, 4))
       => loaded.res = Err("AddrLoadFetch")
  /\ (loaded.op = "load_halfword" /\ ~AlignedTo(loaded.addr, 2))
       => loaded.res = Err("AddrLoadFetch")

\* C6: loads are total and route by range: an address in .text, .extern, .data
\* or the heap yields a value, every other address the AddrLoadFetch exception.
C6_LoadsTotalAndRouted ==
  loaded.op # "none" =>
    IF InText(loaded.addr) \/ InExtern(loaded.addr) \/ InData(loaded.addr)
       \/ InHeap(loaded.addr)
    THEN loaded.res.tag = "Ok"
    ELSE loaded.res = Err("AddrLoadFetch")

\* C7: a load_word at a .text address whose four bytes all lie in the image
\* returns their little-endian value bytes[o] + 256*bytes[o+1] + 65536*bytes[o+2]
\* + 16777216*bytes[o+3], o = addr - TEXT_START.
C7_TextWordLittleEndian ==
  (/\ loaded.op = "load_word"
   /\ InText(loaded.addr)
   /\ TextOffset(loaded.addr) + 3 < ImageLen)
    => LET o == TextOffset(loaded.addr)
       IN  loaded.res = Ok(LittleEndian(image.v[o + 1], image.v[o + 2],
                                        image.v[o + 3], image.v[o + 4]))

\* C7 witness: a word read inside the image, at a nonzero offset, whose bytes
\* are not all equal and whose value has its top bit set.
C7_Witness ==
  /\ loaded.op = "load_word"
  /\ loaded.addr = wrapping_add(TEXT_START, U32(0, 1))
  /\ ImageLen >= 5
  /\ loaded.res = Ok(U32(65025, 510))

\* C8: a word or halfword read that starts inside the image's span and extends
\* past its last byte is present in the HybridStore and byte-correct: the span's
\* bytes, then zeros from the never-written fallback.
C8_StraddlingReadByteCorrect ==
  (/\ loaded.op \in {"load_word", "load_halfword"}
   /\ InText(loaded.addr)
   /\ TextOffset(loaded.addr) < ImageLen
   /\ TextOffset(loaded.addr) + WidthOf(loaded.op) > ImageLen)
    => /\ (IF loaded.op = "load_word"
           THEN HybridStore_read_word(program.text, TextOffset(loaded.addr))
           ELSE HybridStore_read_halfword(program.text, TextOffset(loaded.addr))).tag
            = "Some"
       /\ loaded.res = Ok(ImageValue(loaded.op, TextOffset(loaded.addr)))

\* C9: an aligned load in .text, .extern or .data none of whose bytes the loader
\* supplied returns 0: no exception and no fault.
C9_UnsuppliedReadsZero ==
  (/\ loaded.op # "none"
   /\ AlignedTo(loaded.addr, WidthOf(loaded.op))
   /\ \/ InText(loaded.addr) /\ TextOffset(loaded.addr) >= ImageLen
      \/ InExtern(loaded.addr)
      \/ InData(loaded.addr))
    => loaded.res = Ok(ZeroOf(loaded.op))

----------------------------------------------------------------------------
(* Properties of add, checked under Spec *)

\* the last cycle executed add rd, rs, rt with pairwise distinct indices
AddExecuted ==
  /\ Decoded
  /\ Opcode = 0
  /\ Funct = 32
  /\ RdField # RsField
  /\ RdField # RtField
  /\ RsField # RtField

\* the high half of a u32 read as a signed 16-bit number
SignedHigh(w) == IF w[1] >= 32768 THEN w[1] - HALF ELSE w[1]

\* the signed sum of a and b, in units of 2^16 (the low half's carry included)
SignedSumHigh(a, b) == SignedHigh(a) + SignedHigh(b) + ((a[2] + b[2]) \div HALF)

\* the signed 32-bit sum of a and b is not representable
SignedSumOverflows(a, b) ==
  SignedSumHigh(a, b) < -32768 \/ SignedSumHigh(a, b) > 32767

\* (a + b) mod 2^32
SumMod32(a, b) ==
  <<(a[1] + b[1] + ((a[2] + b[2]) \div HALF)) % HALF, (a[2] + b[2]) % HALF>>

\* C10: add rd, rs, rt with pairwise distinct indices ends with
\* Exception(Overflow) exactly when the signed 32-bit sum of rs and rt is not
\* representable, and then rd is unchanged; otherwise it ends with Forward and
\* rd = (rs + rt) mod 2^32.
C10_AddOverflowExact ==
  AddExecuted =>
    /\ phase = "returned"
    /\ IF SignedSumOverflows(before.regular[RsField], before.regular[RtField])
       THEN /\ next = Exception("Overflow")
            /\ regular[RdField] = before.regular[RdField]
       ELSE /\ next = Forward
            /\ regular[RdField] = SumMod32(before.regular[RsField],
                                           before.regular[RtField])

\* C10 witness: add $14, $11, $13 on 0x7FFFFFFF and 1 ended with
\* Exception(Overflow) and left $14 alone.
C10_Witness ==
  /\ AddExecuted
  /\ before.regular[RsField] = U32(32767, 65535)
  /\ before.regular[RtField] = U32(0, 1)
  /\ next = Exception("Overflow")
  /\ regular[RdField] = before.regular[RdField]

----------------------------------------------------------------------------
\* Properties of sub

\* the last cycle executed sub rd, rs, rt on three distinct registers
SubExecuted ==
  /\ Decoded
  /\ Opcode = 0
  /\ Funct = 34
  /\ RdField # RsField
  /\ RdField # RtField
  /\ RsField # RtField

\* the signed difference of a and b, in units of 2^16 (the low half's borrow
\* included)
SignedDifferenceHigh(a, b) ==
  SignedHigh(a) - SignedHigh(b) - (IF a[2] < b[2] THEN 1 ELSE 0)

\* the signed 32-bit difference of a and b is not representable
SignedDifferenceOverflows(a, b) ==
  SignedDifferenceHigh(a, b) < -32768 \/ SignedDifferenceHigh(a, b) > 32767

\* (a - b) mod 2^32
DifferenceMod32(a, b) ==
  <<(a[1] - b[1] - (IF a[2] < b[2] THEN 1 ELSE 0)) % HALF, (a[2] - b[2]) % HALF>>

\* C11: sub rd, rs, rt with pairwise distinct indices ends with
\* Exception(Overflow) exactly when the signed 32-bit difference rs - rt is not
\* representable, and then rd is unchanged; otherwise it ends with Forward and
\* rd = (rs - rt) mod 2^32.
C11_SubOverflowExact ==
  SubExecuted =>
    /\ phase = "returned"
    /\ IF SignedDifferenceOverflows(before.regular[RsField],
                                    before.regular[RtField])
       THEN /\ next = Exception("Overflow")
            /\ regular[RdField] = before.regular[RdField]
       ELSE /\ next = Forward
            /\ regular[RdField] = DifferenceMod32(before.regular[RsField],
                                                  before.regular[RtField])

----------------------------------------------------------------------------
\* Properties of addi and addiu

\* the immediate field of the instruction word the last cycle fetched
Imm16Field == isolate_imm16(FetchedWord.v)

\* sext16: the 16-bit immediate as a 32-bit two's complement number
Sext16(imm16) == <<IF imm16 >= 32768 THEN 65535 ELSE 0, imm16>>

\* the last cycle executed addi rt, rs, imm16 with rt # rs
AddiExecuted ==
  /\ Decoded
  /\ Opcode = 8
  /\ RtField # RsField

\* C12: addi rt, rs, imm16 with rt # rs ends with Exception(Overflow) and rt
\* unchanged exactly when the signed sum rs + sext16(imm16) is not representable
\* in 32 bits; otherwise it ends with Forward and rt = (rs + sext16(imm16))
\* mod 2^32, also when the immediate is negative.
C12_AddiOverflowExact ==
  AddiExecuted =>
    /\ phase = "returned"
    /\ IF SignedSumOverflows(before.regular[RsField], Sext16(Imm16Field))
       THEN /\ next = Exception("Overflow")
            /\ regular[RtField] = before.regular[RtField]
       ELSE /\ next = Forward
            /\ regular[RtField] = SumMod32(before.regular[RsField],
                                           Sext16(Imm16Field))

\* the last cycle executed addiu rt, rs, imm16 with rt # rs
AddiuExecuted ==
  /\ Decoded
  /\ Opcode = 9
  /\ RtField # RsField

\* C13: addiu rt, rs, imm16 with rt # rs ends with Forward, never with an
\* exception or a fault, and rt = (rs + sext16(imm16)) mod 2^32.
C13_AddiuWraps ==
  AddiuExecuted =>
    /\ phase = "returned"
    /\ next = Forward
    /\ regular[RtField] = SumMod32(before.regular[RsField], Sext16(Imm16Field))

----------------------------------------------------------------------------
\* Properties of jumps and branches

\* the last cycle executed j or jal
JumpExecuted == Decoded /\ Opcode \in {2, 3}

\* the 26-bit target field of the instruction word the last cycle fetched
Target26Field ==
  (isolate_target_26(FetchedWord.v)[1] * HALF) + isolate_target_26(FetchedWord.v)[2]

\* (at & 0xF0000000) | (target26 << 2)
AbsoluteTarget(at, target26) ==
  <<((at[1] \div 4096) * 4096) + ((target26 * 4) \div HALF), (target26 * 4) % HALF>>

\* C14: j and jal end with Branch(t), t = (PC & 0xF0000000) | (target26 << 2),
\* and jal sets register 31 to PC + 4.
C14_JumpTargetAbsolute ==
  JumpExecuted =>
    /\ phase = "returned"
    /\ next = Branch(AbsoluteTarget(before.pc, Target26Field))
    /\ Opcode = 3 => regular[31] = SumMod32(before.pc, <<0, 4>>)


\* the REGIMM rt fields: bltz, bgez, bltzal, bgezal
RegimmFields == {0, 1, 16, 17}

\* the last cycle executed a conditional branch
BranchExecuted ==
  /\ Decoded
  /\ Opcode \in {4, 5, 6, 7} \/ (Opcode = 1 /\ RtField \in RegimmFields)

\* a u32 read as a signed number is negative, is zero
Negative(w) == w[1] >= 32768
Zero(w) == w = <<0, 0>>

\* the condition of the branch on the values rs and rt had before the cycle
BranchCondition(opcode, rtField, rs, rt) ==
  IF opcode = 4 THEN rs = rt
  ELSE IF opcode = 5 THEN rs # rt
  ELSE IF opcode = 6 THEN Negative(rs) \/ Zero(rs)
  ELSE IF opcode = 7 THEN ~Negative(rs) /\ ~Zero(rs)
  ELSE IF rtField \in {0, 16} THEN Negative(rs)
  ELSE ~Negative(rs)

\* the branch of the last cycle is taken
BranchTaken ==
  BranchCondition(Opcode, RtField, before.regular[RsField], before.regular[RtField])

\* (at + 4) + (sext16(imm16) << 2), mod 2^32
RelativeTarget(at, imm16) ==
  SumMod32(SumMod32(at, <<0, 4>>),
           <<((Sext16(imm16)[1] * 4) + ((imm16 * 4) \div HALF)) % HALF,
             (imm16 * 4) % HALF>>)

\* C15: a taken conditional branch at PC ends with
\* Branch((PC + 4) + (sext16(imm16) << 2)), and one not taken ends with Forward.
C15_BranchTargetRelative ==
  BranchExecuted =>
    /\ phase = "returned"
    /\ next = IF BranchTaken THEN Branch(RelativeTarget(before.pc, Imm16Field))
              ELSE Forward

\* the last cycle executed a REGIMM instruction (opcode 0x01) with one of the
\* four rt fields
RegimmExecuted == Decoded /\ Opcode = 1 /\ RtField \in RegimmFields

\* C16: for opcode 0x01 the branch kind is selected by the rt field alone,
\* whatever the registers hold: the cycle branches exactly when the condition of
\* the kind the field names holds of rs.
C16_RegimmSelectedByField ==
  RegimmExecuted =>
    /\ phase = "returned"
    /\ next.kind = IF BranchTaken THEN "Branch" ELSE "Forward"

----------------------------------------------------------------------------
\* Properties of exceptions

\* the last call of perform_cycle returned an exception
ExceptionReturned == phase = "returned" /\ next.kind = "Exception"

\* C17: whenever perform_cycle returns Exception(kind), the 32 general
\* registers, HI, LO, PC and the memory contents equal their values before the
\* cycle.
C17_ExceptionLeavesStateUntouched ==
  ExceptionReturned =>
    /\ RegistersUnchanged
    /\ program = ProgramDataBuilder_build(image)

\* C17 witness: the fifth cycle of a program, sub $14, $11, $13 on operands two
\* earlier cycles built, returned Exception(Overflow) and left every register
\* as it was.
C17_Witness ==
  /\ ExceptionReturned
  /\ SubExecuted
  /\ cycles = 5
  /\ next = Exception("Overflow")
  /\ before.regular[14] = U32(0, 0)
  /\ RegistersUnchanged

----------------------------------------------------------------------------
\* Properties of lui and ori

\* the k-th instruction word of the program image
InstrAt(k) == load_word(program, wrapping_add(TEXT_START, U32(0, 4 * k))).v

\* the program begins with lui rt, hi; ori rt, rt, lo with rt # 0
LuiOriProgram ==
  /\ Len(image.v) >= 8
  /\ isolate_opcode(InstrAt(0)) = 15
  /\ isolate_opcode(InstrAt(1)) = 13
  /\ isolate_rt(InstrAt(0)) # 0
  /\ isolate_rt(InstrAt(1)) = isolate_rt(InstrAt(0))
  /\ isolate_rs(InstrAt(1)) = isolate_rt(InstrAt(0))

\* C18: the sequence lui rt, hi; ori rt, rt, lo with rt # 0, run in two
\* successive cycles, ends with both outcomes Forward and rt = (hi << 16) | lo.
C18_LuiOriMaterializes ==
  LuiOriProgram /\ CycleEnded /\ cycles <= 2 =>
    /\ phase = "returned"
    /\ next = Forward
    /\ cycles = 2 =>
         regular[isolate_rt(InstrAt(0))] =
           <<isolate_imm16(InstrAt(0)), isolate_imm16(InstrAt(1))>>

----------------------------------------------------------------------------
\* Properties of the driver

\* C19: the driver's one-instruction step updates PC from the outcome: a step
\* at PC = p that goes forward (every instruction Cpu::next has an arm for does)
\* leaves PC = p + 4, so n steps leave PC 4n past its initial value.
C19_DriverStepUpdatesPc ==
  cycles > 0 =>
    /\ phase # "panicked"
    /\ pc = SumMod32(before.pc, <<0, 4>>)

----------------------------------------------------------------------------
\* Properties of the segmented store, checked under SegSpec

\* the last operation wrote a word
WordWritten == loaded.op = "write"

\* C20: after write(i, w) of the four little-endian bytes of a word,
\* read_word(i) returns the word and read_byte(i + k) returns its k-th byte,
\* also when i is the start of a frame and when the word straddles two frames.
C20_WriteThenReadRoundTrip ==
  WordWritten =>
    /\ SegmentedStore_read_word(segmented, loaded.addr) = Some(loaded.res.v)
    /\ \A k \in 0..3 :
         SegmentedStore_read_byte(segmented, loaded.addr + k)
           = Some(to_le_bytes(loaded.res.v)[k + 1])

----------------------------------------------------------------------------
\* Properties of sra and addu, checked under Spec

\* the last cycle executed sra rd, rt, shamt on distinct register fields
SraExecuted ==
  /\ Decoded
  /\ Opcode = 0
  /\ Funct = 3
  /\ RdField # RsField
  /\ RdField # RtField
  /\ RsField # RtField

\* floor(w / 2^shamt) mod 2^32, w read as a signed 32-bit number
ArithmeticShiftRight(w, shamt) ==
  IF shamt < 16
  THEN <<(SignedHigh(w) \div Pow2(shamt)) % HALF,
         ((SignedHigh(w) % Pow2(shamt)) * Pow2(16 - shamt)) + (w[2] \div Pow2(shamt))>>
  ELSE <<IF SignedHigh(w) < 0 THEN 65535 ELSE 0,
         (SignedHigh(w) \div Pow2(shamt - 16)) % HALF>>

\* C21: sra rd, rt, shamt on pairwise distinct fields ends with Forward and rd
\* the arithmetic right shift of rt: the top shamt bits of rd equal bit 31 of rt.
C21_SraReplicatesSign ==
  SraExecuted =>
    /\ phase = "returned"
    /\ next = Forward
    /\ regular[RdField] = ArithmeticShiftRight(before.regular[RtField], ShamtField)


\* the last cycle executed addu rd, rs, rt on three distinct registers
AdduExecuted ==
  /\ Decoded
  /\ Opcode = 0
  /\ Funct = 33
  /\ RdField # RsField
  /\ RdField # RtField
  /\ RsField # RtField

\* the last cycle was the first of the program 0x01095021 (addu $10, $8, $9),
\* run from the registers of Registers::init
FirstAdduExecuted ==
  /\ CycleEnded
  /\ cycles = 1
  /\ image = Some(<<33, 80, 9, 1>>)
  /\ before = Registers_init

\* C22: addu on pairwise distinct registers ends with Forward, never with an
\* exception, and leaves rd = (rs + rt) mod 2^32 and every other general
\* register, HI and LO unchanged; from Registers::init with .text = 0x01095021
\* the cycle leaves $10 = 7.
C22_AdduWrapsFromInit ==
  /\ AdduExecuted =>
       /\ phase = "returned"
       /\ next = Forward
       /\ regular[RdField] = SumMod32(before.regular[RsField], before.regular[RtField])
       /\ \A n \in 0..31 : n # RdField => regular[n] = before.regular[n]
       /\ hi = before.hi
       /\ lo = before.lo
  /\ FirstAdduExecuted =>
       /\ AdduExecuted
       /\ before.pc = <<64, 0>>
       /\ before.regular[8] = <<0, 3>>
       /\ before.regular[9] = <<0, 4>>
       /\ regular[10] = <<0, 7>>

\* C22 witness: the first cycle of 0x01095021 returned Forward with $10 = 7.
C22_Witness ==
  /\ FirstAdduExecuted
  /\ next = Forward
  /\ regular[10] = <<0, 7>>
  /\ regular[8] = <<0, 3>>

----------------------------------------------------------------------------
(* Properties of Registers::r, checked under RegSpec *)

\* the last step was a call registers.r(n)
BorrowCalled(n) == loaded'.op = "r" /\ loaded'.addr = n

\* the call handed out a handle to register n, which is now live
HandedOut(n) ==
  /\ loaded'.res = Ok(n)
  /\ borrows' = [borrows EXCEPT ![n] = @ + 1]

\* the call returned a VM-internal error and left the handles and the registers
\* as they were
RefusedWithVmError ==
  /\ loaded'.res.tag = "Err"
  /\ loaded'.res.e.unstable = "VmError"
  /\ UNCHANGED <<borrows, regular, pc, hi, lo>>

\* C23: Registers::r(n) hands out a handle exactly when n < 32 and no handle to
\* register n is live; otherwise it returns a VmError and changes nothing. So no
\* register ever has two live handles, and a register whose handle was dropped
\* has none.
C23_OneHandlePerRegister ==
  /\ [][\A n \in RegIndices :
          /\ BorrowCalled(n) =>
               IF n < 32 /\ borrows[n] = 0 THEN HandedOut(n) ELSE RefusedWithVmError
          /\ (loaded'.op = "drop" /\ loaded'.addr = n /\ loaded' # loaded) =>
               borrows'[n] = 0]_vars
  /\ [](\A n \in 0..31 : borrows[n] <= 1)

\* C23 witness: handles to two distinct registers are live at once, and the last
\* call, asking for one of them again, was refused with a VmError
C23_Witness ==
  \E a, b \in 0..31 :
    /\ a # b
    /\ borrows[a] = 1
    /\ borrows[b] = 1
    /\ loaded = [op |-> "r", addr |-> a,
                 res |-> Err(Unstable_VmError("race condition while borrowing register"))]

----------------------------------------------------------------------------
(* Properties of perform_cycle's effect on PC, checked under Spec *)

\* the last cycle fetched jal, jalr or an opcode-0x01 word, and the register
\* such an instruction links
LinkingFetched == Decoded /\ (Opcode \in {1, 3} \/ (Opcode = 0 /\ Funct = 9))
LinkRegister == IF Opcode = 0 THEN RdField ELSE 31

\* the last cycle stored PC + 4 in the link register and nothing else
Linked ==
  /\ regular = [before.regular EXCEPT
                 ![LinkRegister] = wrapping_add(before.pc, U32(0, 4))]
  /\ regular # before.regular

\* C24: perform_cycle never writes PC: however a cycle ends, by whichever
\* outcome or by unwinding, PC is what it was when the cycle began; jal, jalr and
\* the opcode-0x01 branches leave the general registers as they were or store
\* PC + 4 in the link register, and nothing else.
C24_PerformCycleKeepsPc ==
  /\ CycleEnded => pc = before.pc
  /\ LinkingFetched =>
       (regular = before.regular \/ Linked) /\ hi = before.hi /\ lo = before.lo

\* C24 witness: a cycle on an opcode-0x01 word has linked and returned Branch
\* with PC still the instruction's address
C24_Witness ==
  /\ Decoded
  /\ Opcode = 1
  /\ Linked
  /\ next.kind = "Branch"
  /\ pc = before.pc

----------------------------------------------------------------------------
(* Properties of SegmentedStore::write, checked under WriteSpec *)

\* the byte the latest of the first n write calls put at offset a, 0 if none did
RECURSIVE LastWritten(_, _)
LastWritten(n, a) ==
  IF n = 0 THEN 0
  ELSE IF a >= written[n].index /\ a < written[n].index + Len(written[n].data)
       THEN written[n].data[(a - written[n].index) + 1]
  ELSE LastWritten(n - 1, a)

\* frame starts strictly increase along the list, each a multiple of the frame size
FramesOrdered ==
  /\ \A i \in 1..(Len(segmented) - 1) : segmented[i].index < segmented[i + 1].index
  /\ \A i \in 1..Len(segmented) : segmented[i].index % SIZE = 0

\* every byte of every frame is the byte last written there, or 0
FramesHoldWritten ==
  \A i \in 1..Len(segmented) :
    \A k \in 1..SIZE :
      segmented[i].data[k] = LastWritten(Len(written), (segmented[i].index + k) - 1)

\* offsets at and around the ends of the frames and of the writes
ProbedOffsets ==
  {0, 3, 4, 10, SIZE - 4, SIZE - 3, SIZE - 1, SIZE, SIZE + 2, SIZE + 3, SIZE + 1000,
   (2 * SIZE) - 3, (2 * SIZE) - 2, (2 * SIZE) - 1, 2 * SIZE, (2 * SIZE) + 1,
   (2 * SIZE) + 2, (3 * SIZE) - 1, 3 * SIZE, (3 * SIZE) + 2, (3 * SIZE) + 3,
   4 * SIZE, 5 * SIZE, (5 * SIZE) + 1, (5 * SIZE) + 2, (6 * SIZE) - 1}

\* read_byte at an offset of an allocated frame returns the byte last written
\* there, or 0
ReadsReturnWritten ==
  \A a \in ProbedOffsets :
    find_segment(segmented, a).tag = "Some" =>
      SegmentedStore_read_byte(segmented, a) = Some(LastWritten(Len(written), a))

\* C25: after any sequence of SegmentedStore::write calls the frames are in
\* strictly increasing order of start, every start is a multiple of 2048, no two
\* frames share a start, and every byte of an allocated frame reads as the value
\* last written to it, or 0 if no write covered it.
C25_WritesKeepFrames ==
  /\ FramesOrdered
  /\ FramesHoldWritten
  /\ ReadsReturnWritten

\* C25 witness: the second write, of data longer than a frame, put its frames in
\* front of the frame of the first, whose bytes are still there
C25_Witness ==
  /\ Len(written) = 2
  /\ Len(segmented) >= 4
  /\ written[2].index < written[1].index
  /\ Len(written[2].data) > SIZE
  /\ written[1].data # << >>
  /\ SegmentedStore_read_byte(segmented, written[1].index) = Some(written[1].data[1])

====
